---- MODULE Spec2Model ----
(***************************************************************************)
(* Row-enrichment pipelines of langchain_food_data_pipeline:               *)
(*   food_ai_server_data_pipeline.py  (process_csv, linear chain)          *)
(*   food_web_app_data_pipeline.py    (process_wine_csv, fan-out chain)    *)
(*                                                                         *)
(* Text is a sequence of symbols.  A symbol is one of the characters the   *)
(* code looks at (space, newline, colon, underscore, backtick, star,       *)
(* slash) or a word: a maximal run of other characters, which no operation *)
(* of the code splits.  Column names, keys and values are such sequences.  *)
(***************************************************************************)
EXTENDS Integers, Sequences, FiniteSets, TLC

\* ------------------------------------------------------------------ bounds
MaxRows == 2
\* most code-fence or comment markers at either end of a parsed text
MaxMarks == 2
\* most lines of a parsed text
MaxLines == 3

\* ------------------------------------------------------- program constants
max_retries_Four == 3 + 1

\* max_retries = 3 of process_csv and process_wine_csv
max_retries == 3
NumPairings == 3

\* ------------------------------------------------------------------ text
SP == " "
NL == "\n"
COLON == ":"
US == "_"
BT == "<backtick>"
STAR == "*"
SLASH == "/"

Empty == << >>
\* the missing-value marker of pandas: an empty cell read by read_csv, a key a row
\* dict lacks once the rows are gathered in a DataFrame
NaN == <<"<NaN>">>

IsSpace(c) == c \in {SP, NL}

RECURSIVE LStrip(_)
LStrip(s) ==
    IF s = << >> THEN << >>
    ELSE IF IsSpace(Head(s)) THEN LStrip(Tail(s)) ELSE s

RECURSIVE RStrip(_)
RStrip(s) ==
    IF s = << >> THEN << >>
    ELSE IF IsSpace(s[Len(s)]) THEN RStrip(SubSeq(s, 1, Len(s) - 1)) ELSE s

\* str.strip()
Strip(s) == RStrip(LStrip(s))

\* str.replace(a, b) for one-character a and b
Replace(s, a, b) == [i \in 1..Len(s) |-> IF s[i] = a THEN b ELSE s[i]]

Contains(s, c) == \E i \in 1..Len(s) : s[i] = c

\* index of the first occurrence of c in s (s contains c)
FirstIndex(s, c) == CHOOSE i \in 1..Len(s) : s[i] = c /\ \A j \in 1..(i - 1) : s[j] # c

\* str.split(c, 1) on a string that contains c
SplitFirst(s, c) ==
    LET i == FirstIndex(s, c)
    IN  <<SubSeq(s, 1, i - 1), SubSeq(s, i + 1, Len(s))>>

\* F applied to the value of e, which is computed once
Bind(e, F(_)) == CHOOSE r \in { F(x) : x \in {e} } : TRUE

\* str.split('\n')
RECURSIVE SplitOn(_, _)
SplitOn(s, c) ==
    IF ~Contains(s, c) THEN <<s>>
    ELSE Bind(FirstIndex(s, c),
              LAMBDA i : <<SubSeq(s, 1, i - 1)>> \o SplitOn(SubSeq(s, i + 1, Len(s)), c))

\* str.splitlines(): no trailing empty line, no line at all for empty text
SplitLines(s) ==
    IF s = << >> THEN << >>
    ELSE LET parts == SplitOn(s, NL)
         IN  IF parts[Len(parts)] = << >> THEN SubSeq(parts, 1, Len(parts) - 1) ELSE parts

StartsWith(s, p) == Len(s) >= Len(p) /\ SubSeq(s, 1, Len(p)) = p
EndsWith(s, p) == Len(s) >= Len(p) /\ SubSeq(s, Len(s) - Len(p) + 1, Len(s)) = p

\* s[a:-b] of Python
Slice(s, a, b) == SubSeq(s, a + 1, Len(s) - b)

\* ------------------------------------------------------------ dictionaries
EmptyDict == [k \in {} |-> << >>]

\* d[k] = v
DictSet(d, k, v) == [x \in DOMAIN d \cup {k} |-> IF x = k THEN v ELSE d[x]]

\* d.get(k, default)
Get(d, k, default) == IF k \in DOMAIN d THEN d[k] ELSE default

\* d.update(e), {**d, **e}
DictUpdate(d, e) == [x \in DOMAIN d \cup DOMAIN e |-> IF x \in DOMAIN e THEN e[x] ELSE d[x]]

\* ----------------------------------------------------------------- parsers
\* food_ai_server_data_pipeline.parse_key_value_pairs
RECURSIVE ParseKVLines(_, _)
ParseKVLines(lines, result) ==
    IF lines = << >> THEN result
    ELSE Bind(Strip(Head(lines)), LAMBDA line :
            IF line = << >> THEN ParseKVLines(Tail(lines), result)
            ELSE IF Contains(line, COLON)
                 THEN Bind(SplitFirst(line, COLON), LAMBDA kv :
                         ParseKVLines(Tail(lines), DictSet(result, Strip(kv[1]), Strip(kv[2]))))
                 ELSE ParseKVLines(Tail(lines), result))

parse_key_value_pairs_KeepAll(text) ==
    LET lines == SplitLines(text)
        kept == ParseKVLines(lines, EmptyDict)
    IN  [k \in DOMAIN kept \cup { Strip(lines[n]) : n \in 1..Len(lines) } |->
            IF k \in DOMAIN kept THEN kept[k] ELSE Empty]

parse_key_value_pairs(text) ==
    Bind(SplitLines(text), LAMBDA lines : ParseKVLines(lines, EmptyDict))

\* food_web_app_data_pipeline.parse_keyval_response
Fence == <<BT, BT, BT>>
CommentMark == <<STAR, SLASH>>

CleanResponse(response_text) ==
    LET t == Strip(response_text)
    IN  IF StartsWith(t, Fence) /\ EndsWith(t, Fence) THEN Strip(Slice(t, 3, 3))
        ELSE IF StartsWith(t, CommentMark) /\ EndsWith(t, CommentMark) THEN Strip(Slice(t, 2, 2))
        ELSE t

RECURSIVE ParseKeyvalLines(_, _)
ParseKeyvalLines(lines, result) ==
    IF lines = << >> THEN result
    ELSE LET line == Strip(Head(lines))
         IN  IF line = << >> \/ ~Contains(line, COLON)
             THEN ParseKeyvalLines(Tail(lines), result)
             ELSE LET parts == SplitFirst(line, COLON)
                      key == Replace(Strip(parts[1]), SP, US)
                      value == Strip(parts[2])
                  IN  ParseKeyvalLines(Tail(lines), DictSet(result, key, value))

parse_keyval_response(response_text) ==
    ParseKeyvalLines(SplitOn(CleanResponse(response_text), NL), EmptyDict)


\* clean_text: keeps alphanumerics and ' .,;:!?()-/', then ' '.join(cleaned.split());
\* a value that is not a string (NaN) is returned as it is
Dropped == {US, BT, STAR, "&", NL}

RECURSIVE Filter(_)
Filter(s) ==
    IF s = << >> THEN << >>
    ELSE IF Head(s) \in Dropped THEN Filter(Tail(s)) ELSE <<Head(s)>> \o Filter(Tail(s))

\* ' '.join(s.split()) on a string without leading white space
RECURSIVE JoinSplit(_)
JoinSplit(s) ==
    IF s = << >> THEN << >>
    ELSE IF IsSpace(Head(s))
         THEN LET rest == LStrip(s) IN IF rest = << >> THEN << >> ELSE <<SP>> \o JoinSplit(rest)
         ELSE <<Head(s)>> \o JoinSplit(Tail(s))

clean_text(text) == IF text = NaN THEN text ELSE JoinSplit(LStrip(Filter(text)))

\* ------------------------------------------------------------ column names
ProductName == <<"Product", SP, "Name">>
FoodName == <<"Food", SP, "Name">>
ImageLink == <<"Image", SP, "Link">>
Price == <<"Price">>
Currency == <<"Currency">>
Sizing == <<"Sizing">>
FoodType == <<"Food", SP, "Type">>
Course == <<"Course">>
Sweetness == <<"Sweetness">>
Saltiness == <<"Saltiness">>
Sourness == <<"Sourness">>
Bitterness == <<"Bitterness">>
Umami == <<"Umami">>
Tags == <<"Tags">>
Unknown == <<"Unknown">>

\* food_ai_server_data_pipeline.REQUIRED_COLUMNS
REQUIRED_COLUMNS == {FoodName}

\* food_ai_server_data_pipeline.DEFAULT_VALUES
DEFAULT_VALUES ==
    (ImageLink :> Empty) @@ (Price :> <<"0.00">>) @@ (Currency :> <<"HKD">>) @@
    (Sizing :> <<"Medium">>) @@ (FoodType :> Empty) @@ (Course :> Empty) @@
    (Sweetness :> <<"5">>) @@ (Saltiness :> <<"5">>) @@ (Sourness :> <<"5">>) @@
    (Bitterness :> <<"5">>) @@ (Umami :> <<"5">>) @@ (Tags :> Empty)

Num == <<"1", "2", "3">>

\* the nine columns of pairing i in food_web_app_data_pipeline.FOOD_PAIRING_COLUMNS
PairingColumns(i) ==
    { <<"Food", SP, "Pairing", SP, Num[i]>>,
      <<"Pairing", SP, "Type", SP, Num[i]>>,
      <<"Course", SP, Num[i]>>,
      <<"Pairing", SP, "Description", SP, Num[i]>>,
      <<"Food", SP, "&", SP, "Wine", SP, "Acidity", SP, Num[i]>>,
      <<"Regional", SP, "Pairing", SP, Num[i]>>,
      <<"Food", SP, Num[i], SP, "Image", SP, "URL">>,
      <<"Sweetness", SP, "&", SP, "Spiciness", SP, Num[i]>>,
      <<"Pairing", SP, "Suitability", SP, Num[i]>> }

FOOD_PAIRING_COLUMNS == UNION { PairingColumns(i) : i \in 1..NumPairings }

\* food_web_app_data_pipeline.DEFAULT_FOOD_PAIRING_VALUES: every entry is ""
DefaultedPairingColumns(i) ==
    { <<"Food", SP, Num[i], SP, "Image", SP, "URL">>,
      <<"Food", SP, "&", SP, "Wine", SP, "Acidity", SP, Num[i]>>,
      <<"Regional", SP, "Pairing", SP, Num[i]>>,
      <<"Sweetness", SP, "&", SP, "Spiciness", SP, Num[i]>> }

DEFAULT_FOOD_PAIRING_VALUES ==
    [c \in UNION { DefaultedPairingColumns(i) : i \in 1..NumPairings } |-> Empty]

\* a row of the DataFrame: row.get(col, default), col in row
RowGet(row, col, default) == Get(row, col, default)


\* ---------------------------------------------------------- prompt inputs
\* input variables of the templates (PromptTemplate.from_template collects the
\* {names} of the template text; invoke raises KeyError when one is not supplied)
FoodTemplateVars == {"product_name"}
PairingsTemplateVars ==
    {"product_name", "food_type", "sweetness_dry", "saltiness", "sourness", "bitterness", "umami"}
PairingTemplateVars == PairingsTemplateVars \cup {"wine_pairing"}

\* food_ai_server_data_pipeline.extract_input_data
extract_input_data(row) ==
    [k \in {"product_name"} |-> RowGet(row, ProductName, <<"Unknown", SP, "Wine">>)]

\* food_web_app_data_pipeline.extract_food_data
extract_food_data(row) ==
    ("product_name" :> RowGet(row, ProductName, <<"Unknown", SP, "Food">>)) @@
    ("food_type" :> RowGet(row, FoodType, <<"Unknown", SP, "Food", SP, "Type">>)) @@
    ("course" :> RowGet(row, Course, <<"Unknown", SP, "Food", SP, "Course">>)) @@
    ("sweetness" :> RowGet(row, Sweetness, Unknown)) @@
    ("saltiness" :> RowGet(row, Saltiness, Unknown)) @@
    ("sourness" :> RowGet(row, Sourness, Unknown)) @@
    ("bitterness" :> RowGet(row, Bitterness, Unknown)) @@
    ("umami" :> RowGet(row, Umami, Unknown)) @@
    ("tags" :> RowGet(row, Tags, Unknown))

\* prompt | llm | parser: the prompt is composed only when every template
\* variable is supplied
CanCompose(templateVars, data) == templateVars \subseteq DOMAIN data

\* -------------------------------------------------------------- row builders
\* process_csv, the enriched row (food_data)
food_data(row, base_info, characteristics) ==
    (ProductName :> RowGet(row, ProductName, Empty)) @@
    (ImageLink :> RowGet(row, ImageLink, DEFAULT_VALUES[ImageLink])) @@
    (Price :> RowGet(row, Price, Get(base_info, Price, DEFAULT_VALUES[Price]))) @@
    (Currency :> RowGet(row, Currency, Get(base_info, Currency, DEFAULT_VALUES[Currency]))) @@
    (Sizing :> RowGet(row, Sizing, Get(base_info, Sizing, DEFAULT_VALUES[Sizing]))) @@
    (FoodType :> RowGet(row, FoodType, Get(base_info, FoodType, DEFAULT_VALUES[FoodType]))) @@
    (Course :> RowGet(row, Course, Get(base_info, Course, DEFAULT_VALUES[Course]))) @@
    (Sweetness :> Get(characteristics, Sweetness, DEFAULT_VALUES[Sweetness])) @@
    (Saltiness :> Get(characteristics, Saltiness, DEFAULT_VALUES[Saltiness])) @@
    (Sourness :> Get(characteristics, Sourness, DEFAULT_VALUES[Sourness])) @@
    (Bitterness :> Get(characteristics, Bitterness, DEFAULT_VALUES[Bitterness])) @@
    (Umami :> Get(characteristics, Umami, DEFAULT_VALUES[Umami])) @@
    (Tags :> Get(characteristics, Tags, DEFAULT_VALUES[Tags]))

\* process_csv, the row of a record whose retries are exhausted (basic_data)
basic_data(row) ==
    LET held == [col \in {c \in REQUIRED_COLUMNS : c \in DOMAIN row} |-> RowGet(row, col, Empty)]
    IN  [col \in REQUIRED_COLUMNS |->
            IF col \in DOMAIN held THEN held[col] ELSE Get(DEFAULT_VALUES, col, Empty)]

\* process_wine_csv: {col: clean_text(row.get(col, "")) for col in df.columns}
original_row(row, columns) == [col \in columns |-> clean_text(RowGet(row, col, Empty))]

\* process_wine_csv, the six columns added for pairing i
PairingFields == {"Sweetness", "Saltiness", "Sourness", "Bitterness", "Umami", "Tags"}

pairing_values(result, i) ==
    [col \in { <<f, SP, Num[i]>> : f \in PairingFields } |->
        clean_text(Get(result, <<col[1], US, Num[i]>>, Empty))]

\* process_wine_csv, the enriched row (new_row of the try block)
wine_new_row(row, columns, result) ==
    pairing_values(result, 3) @@ pairing_values(result, 2) @@ pairing_values(result, 1) @@
    original_row(row, columns)

\* process_wine_csv, the row of a record whose retries are exhausted
wine_default_row(row, columns) ==
    [col \in FOOD_PAIRING_COLUMNS |-> clean_text(Get(DEFAULT_FOOD_PAIRING_VALUES, col, Empty))] @@
    original_row(row, columns)

\* ---------------------------------------------------------------- DataFrame
\* pd.DataFrame(list of dicts): the columns are the keys of all rows, a key a
\* row lacks is NaN in that row
DataFrame(rows) ==
    LET cols == UNION { DOMAIN rows[k] : k \in 1..Len(rows) }
    IN  [columns |-> cols,
         rows |-> [k \in 1..Len(rows) |-> [c \in cols |-> Get(rows[k], c, NaN)]]]

\* final_df[col] = value
SetColumn(frame, col, value) ==
    [columns |-> frame.columns \cup {col},
     rows |-> [k \in 1..Len(frame.rows) |->
                 [c \in frame.columns \cup {col} |-> IF c = col THEN value ELSE frame.rows[k][c]]]]

RECURSIVE FillColumns(_, _)
FillColumns(frame, cols) ==
    IF cols = {} THEN frame
    ELSE LET col == CHOOSE c \in cols : TRUE
         IN  Bind(SetColumn(frame, col, Get(DEFAULT_VALUES, col, Empty)),
                  LAMBDA filled : FillColumns(filled, cols \ {col}))

\* process_csv: final_df with the required columns no row supplied filled in
food_final_df(rows) ==
    Bind(DataFrame(rows), LAMBDA frame :
        LET missing_columns == { col \in REQUIRED_COLUMNS : col \notin frame.columns }
        IN  FillColumns(frame, missing_columns))

\* process_wine_csv: final_df with clean_text applied to its columns
wine_final_df(rows) ==
    Bind(DataFrame(rows), LAMBDA frame :
        [columns |-> frame.columns,
         rows |-> [k \in 1..Len(frame.rows) |->
                     [c \in frame.columns |-> clean_text(frame.rows[k][c])]]])

\* DataFrame.to_csv(index=False): a missing value is written as an empty field
to_csv(frame) ==
    [columns |-> frame.columns,
     rows |-> [k \in 1..Len(frame.rows) |->
                 [c \in frame.columns |-> IF frame.rows[k][c] = NaN THEN Empty ELSE frame.rows[k][c]]]]


\* ------------------------------------------------------------------ inputs
\* column sets of the input files tried
ColumnChoices ==
    { {ProductName}, {ProductName, Price, Sweetness}, {ProductName, FoodName}, {Price} }

\* values of a cell of the input file; NaN is an empty cell
CellChoices(col) ==
    IF col = Price THEN {<<"12">>, Unknown, NaN}
    ELSE IF col = Sweetness THEN {<<"8">>}
    ELSE {<<"Pizza">>}

RowChoices(cols) ==
    { r \in [cols -> {<<"12">>, Unknown, NaN, <<"8">>, <<"Pizza">>}] :
        \A c \in cols : r[c] \in CellChoices(c) }

\* completions of the model: the keys the base-info prompt asks for, and none
BaseInfoResponses ==
    { <<"Price", COLON, SP, "7", NL, "Food", SP, "type", COLON, SP, "Pork">>,
      << >> }

CharacteristicsResponses ==
    { <<"Sweetness", COLON, SP, "3">>, << >> }

\* ------------------------------------------------------------------- state
VARIABLES
    pipeline,              \* "food": process_csv, "wine": process_wine_csv
    readable,              \* whether pd.read_csv(input_file) succeeds
    df,                    \* the input file: [columns, rows]
    pc,                    \* position of the control flow
    index,                 \* position of df.iterrows(), 0 before the first row
    inputs,                \* inputs / wine_data of the current row
    retry_count,
    success,
    base_info_json,        \* full_pipeline: completion of the base-info stage
    wine_pairings,         \* process_food_info: completion of the fan-out stage
    wine_pairings_dict,    \* process_food_info: wine_pairings_dict, alias result
    i,                     \* process_food_info: pairing number of the loop
    pairing_description,   \* process_single_pairing: completion of the description stage
    result,                \* what the chain returned to the batch driver
    results,               \* results / result_data
    final_df,
    saved,                 \* the output file, NoFile while not written
    ret,                   \* return value of the batch driver
    attempts,              \* history: chain runs started for the current row
    trace,                 \* history: for each output row, its record, kind and attempts
    calls,                 \* history: model calls made for the current row
    lastEvent,             \* history: the last model call or time.sleep, "none" before any
    backoffs,              \* history: retry sleeps made for the current row
    responses,             \* history: completions returned in the current chain run
    response_text,         \* the text handed to a response parser
    parsed,                \* the mapping the parser returned
    reparsed               \* the mapping parsed from the lines written from `parsed`

vars == <<pipeline, readable, df, pc, index, inputs, retry_count, success, base_info_json,
          wine_pairings, wine_pairings_dict, i, pairing_description, result, results,
          final_df, saved, ret, attempts, trace, calls, lastEvent, backoffs, responses,
          response_text, parsed, reparsed>>

chainVars == <<base_info_json, wine_pairings, wine_pairings_dict, i, pairing_description>>
fileVars == <<pipeline, readable, df>>
outVars == <<final_df, saved, ret>>
histVars == <<calls, lastEvent, backoffs, responses>>
parserVars == <<response_text, parsed, reparsed>>

NoFile == [columns |-> {}, rows |-> << >>, written |-> FALSE]
NoFrame == [columns |-> {}, rows |-> << >>]

Init ==
    /\ pipeline \in {"food", "wine"}
    /\ readable \in BOOLEAN
    /\ \E cols \in ColumnChoices, M \in 0..MaxRows :
          \E rows \in [1..M -> RowChoices(cols)] :
              df = [columns |-> cols, rows |-> rows]
    /\ pc = "load"
    /\ index = 0
    /\ inputs = EmptyDict
    /\ retry_count = 0
    /\ success = FALSE
    /\ base_info_json = << >>
    /\ wine_pairings = << >>
    /\ wine_pairings_dict = EmptyDict
    /\ i = 0
    /\ pairing_description = << >>
    /\ result = EmptyDict
    /\ results = << >>
    /\ final_df = NoFrame
    /\ saved = NoFile
    /\ ret = "none"
    /\ attempts = 0
    /\ trace = << >>
    /\ calls = 0
    /\ lastEvent = "none"
    /\ backoffs = 0
    /\ responses = << >>
    /\ response_text = << >>
    /\ parsed = EmptyDict
    /\ reparsed = EmptyDict

row == df.rows[index]

\* --------------------------------------------------------- the batch driver
Accumulate_AtFront(list, item) == <<item>> \o list

\* results.append(food_data), result_data.append(new_row)
Accumulate(list, item) == Append(list, item)

\* process_csv / process_wine_csv: load the file, check the identifying column
LoadOk ==
    /\ readable
    /\ pipeline = "food" => ProductName \in df.columns

Load ==
    /\ pc = "load"
    /\ IF LoadOk THEN pc' = "iter" /\ ret' = ret
                 ELSE pc' = "done" /\ ret' = "False"
    /\ UNCHANGED <<parserVars, fileVars, index, inputs, retry_count, success, chainVars, result,
                   results, final_df, saved, attempts, trace, histVars>>

NextRow_Early ==
    /\ pc \in {"iter", "while"}
    /\ IF index < Len(df.rows)
       THEN /\ index' = index + 1
            /\ inputs' = IF pipeline = "food" THEN extract_input_data(df.rows[index + 1])
                                              ELSE extract_food_data(df.rows[index + 1])
            /\ retry_count' = 0
            /\ success' = FALSE
            /\ attempts' = 0
            /\ calls' = 0
            /\ backoffs' = 0
            /\ responses' = << >>
            /\ pc' = "while"
       ELSE /\ pc' = "finalize"
            /\ UNCHANGED <<index, inputs, retry_count, success, attempts, calls, backoffs,
                           responses>>
    /\ UNCHANGED <<parserVars, fileVars, chainVars, result, results, outVars, trace, lastEvent>>

\* for index, row in df.iterrows(): the next row, or the end of the loop
NextRow ==
    /\ pc = "iter"
    /\ IF index < Len(df.rows)
       THEN /\ index' = index + 1
            /\ inputs' = IF pipeline = "food" THEN extract_input_data(df.rows[index + 1])
                                              ELSE extract_food_data(df.rows[index + 1])
            /\ retry_count' = 0
            /\ success' = FALSE
            /\ attempts' = 0
            /\ calls' = 0
            /\ backoffs' = 0
            /\ responses' = << >>
            /\ pc' = "while"
       ELSE /\ pc' = "finalize"
            /\ UNCHANGED <<index, inputs, retry_count, success, attempts, calls, backoffs,
                           responses>>
    /\ UNCHANGED <<parserVars, fileVars, chainVars, result, results, outVars, trace, lastEvent>>

FirstStage_Resume ==
    IF pipeline = "food"
    THEN IF retry_count > 0 /\ base_info_json # << >> THEN "characteristics" ELSE "base_info"
    ELSE "pairings"

\* the stage a chain run starts with: full_pipeline / process_food_info from the top
FirstStage == IF pipeline = "food" THEN "base_info" ELSE "pairings"

\* while retry_count < max_retries and not success: enter the try block
WhileTest ==
    /\ pc = "while"
    /\ IF retry_count < max_retries /\ ~success
       THEN /\ pc' = FirstStage
            /\ attempts' = attempts + 1
            /\ responses' = << >>
       ELSE /\ pc' = "iter"
            /\ attempts' = attempts
            /\ responses' = responses
    /\ UNCHANGED <<parserVars, fileVars, index, inputs, retry_count, success, chainVars, result,
                   results, outVars, trace, calls, lastEvent, backoffs>>

\* chain.invoke reached the model and got the completion r
Returned(r) ==
    /\ calls' = calls + 1
    /\ lastEvent' = "call"
    /\ responses' = Append(responses, r)
    /\ backoffs' = backoffs

\* chain.invoke raised: in the prompt, before any call, when a template
\* variable is not supplied; else in the call to the model
Raised(templateVars, data) ==
    /\ calls' = IF CanCompose(templateVars, data) THEN calls + 1 ELSE calls
    /\ lastEvent' = IF CanCompose(templateVars, data) THEN "call" ELSE lastEvent
    /\ UNCHANGED <<responses, backoffs>>

BaseInfoInvoke_Swallow ==
    /\ pc = "base_info"
    /\ \/ /\ CanCompose(FoodTemplateVars, inputs)
          /\ \E r \in BaseInfoResponses : base_info_json' = r /\ Returned(r)
          /\ pc' = "characteristics"
       \/ /\ pc' = "characteristics"
          /\ Raised(FoodTemplateVars, inputs)
          /\ base_info_json' = << >>
    /\ UNCHANGED <<parserVars, fileVars, index, inputs, retry_count, success, wine_pairings,
                   wine_pairings_dict, i, pairing_description, result, results, outVars,
                   attempts, trace>>

\* full_pipeline: base_info_chain.invoke, which returns a completion or raises
BaseInfoInvoke ==
    /\ pc = "base_info"
    /\ \/ /\ CanCompose(FoodTemplateVars, inputs)
          /\ \E r \in BaseInfoResponses : base_info_json' = r /\ Returned(r)
          /\ pc' = "characteristics"
       \/ /\ pc' = "except"
          /\ Raised(FoodTemplateVars, inputs)
          /\ UNCHANGED base_info_json
    /\ UNCHANGED <<parserVars, fileVars, index, inputs, retry_count, success, wine_pairings,
                   wine_pairings_dict, i, pairing_description, result, results, outVars,
                   attempts, trace>>

CharacteristicsInvoke_Blocks ==
    /\ pc = "characteristics"
    /\ FALSE
    /\ UNCHANGED vars

\* full_pipeline: characteristics_chain.invoke, then the return of both completions
CharacteristicsInvoke ==
    /\ pc = "characteristics"
    /\ \/ /\ CanCompose(FoodTemplateVars, inputs)
          /\ \E r \in CharacteristicsResponses :
                /\ result' = ("base_info_json" :> base_info_json) @@ ("characteristics_json" :> r)
                /\ Returned(r)
          /\ pc' = "build"
       \/ /\ pc' = "except"
          /\ Raised(FoodTemplateVars, inputs)
          /\ UNCHANGED result
    /\ UNCHANGED <<parserVars, fileVars, index, inputs, retry_count, success, chainVars, results,
                   outVars, attempts, trace>>

\* process_csv: the check that the chain returned both completions
HasRequiredData(res) == \A key \in {"base_info_json", "characteristics_json"} : key \in DOMAIN res

\* the row built in the try block from what the chain returned
EnrichedRow ==
    IF pipeline = "food"
    THEN Bind(parse_key_value_pairs(result["base_info_json"]), LAMBDA base_info :
            Bind(parse_key_value_pairs(result["characteristics_json"]), LAMBDA characteristics :
                food_data(row, base_info, characteristics)))
    ELSE wine_new_row(row, df.columns, result)

BuildRow_WriteBack ==
    /\ pc = "build"
    /\ results' = Accumulate(results, EnrichedRow)
    /\ df' = [df EXCEPT !.rows[index] =
                 [c \in DOMAIN row |-> IF c \in DOMAIN EnrichedRow THEN EnrichedRow[c] ELSE row[c]]]
    /\ success' = TRUE
    /\ trace' = Accumulate(trace, [rec |-> index, kind |-> "enriched", attempts |-> attempts])
    /\ lastEvent' = "pacing"
    /\ pc' = "while"
    /\ UNCHANGED <<parserVars, pipeline, readable, index, inputs, retry_count, chainVars, result,
                   outVars, attempts, calls, backoffs, responses>>

\* the rest of the try block: check, parse, build the row, append it, sleep
BuildRow ==
    /\ pc = "build"
    /\ IF pipeline = "food" /\ ~HasRequiredData(result)
       THEN /\ pc' = "except"
            /\ UNCHANGED <<results, success, trace, lastEvent>>
       ELSE /\ results' = Accumulate(results, EnrichedRow)
            /\ success' = TRUE
            /\ trace' = Accumulate(trace, [rec |-> index, kind |-> "enriched", attempts |-> attempts])
            /\ lastEvent' = "pacing"
            /\ pc' = "while"
    /\ UNCHANGED <<parserVars, fileVars, index, inputs, retry_count, chainVars, result, outVars,
                   attempts, calls, backoffs, responses>>

FallbackRow_WithPartial ==
    IF pipeline = "food"
    THEN (Price :> Get(parse_key_value_pairs(base_info_json), Price, Empty)) @@ basic_data(row)
    ELSE wine_default_row(row, df.columns)

\* the row appended when the retries are exhausted
FallbackRow ==
    IF pipeline = "food" THEN basic_data(row) ELSE wine_default_row(row, df.columns)

ShouldRetry_OffByOne(count) == count <= max_retries

\* whether the except block sleeps and lets the loop run again
ShouldRetry(count) == count < max_retries

HandleException_Reraise ==
    /\ pc = "except"
    /\ retry_count' = retry_count + 1
    /\ IF ShouldRetry(retry_count + 1)
       THEN /\ backoffs' = backoffs + 1
            /\ lastEvent' = "backoff"
            /\ pc' = "while"
            /\ UNCHANGED ret
       ELSE /\ pc' = "done"
            /\ ret' = "False"
            /\ UNCHANGED <<backoffs, lastEvent>>
    /\ UNCHANGED <<parserVars, fileVars, index, inputs, success, chainVars, result, results,
                   final_df, saved, attempts, trace, calls, responses>>

\* except Exception: count the failure, then back off or append the fallback row
HandleException ==
    /\ pc = "except"
    /\ retry_count' = retry_count + 1
    /\ IF ShouldRetry(retry_count + 1)
       THEN /\ backoffs' = backoffs + 1
            /\ lastEvent' = "backoff"
            /\ UNCHANGED <<results, trace>>
       ELSE /\ results' = Accumulate(results, FallbackRow)
            /\ trace' = Accumulate(trace, [rec |-> index, kind |-> "fallback", attempts |-> attempts])
            /\ UNCHANGED <<backoffs, lastEvent>>
    /\ pc' = "while"
    /\ UNCHANGED <<parserVars, fileVars, index, inputs, success, chainVars, result, outVars,
                   attempts, calls, responses>>

\* after the loop: the final DataFrame, the required columns, to_csv, return True
Persist ==
    /\ pc = "finalize"
    /\ final_df' = IF pipeline = "food" THEN food_final_df(results) ELSE wine_final_df(results)
    /\ saved' = [columns |-> to_csv(final_df').columns, rows |-> to_csv(final_df').rows,
                 written |-> TRUE]
    /\ ret' = "True"
    /\ pc' = "done"
    /\ UNCHANGED <<parserVars, fileVars, index, inputs, retry_count, success, chainVars, result,
                   results, attempts, trace, histVars>>

\* ------------------------------------------------- the fan-out chain (wine)
\* keys the chain looks up in the parsed fan-out completion
Key(name, n) == name \o <<US, Num[n]>>
Food_Pairing(n) == Key(<<"Food", US, "Pairing">>, n)
Pairing_Type(n) == Key(<<"Pairing", US, "Type">>, n)
Course_(n) == Key(<<"Course">>, n)
Wine_Pairing(n) == Key(<<"Wine", US, "Pairing">>, n)
\* key the fan-out prompt asks the model to write for the name of item n
Wine_Name(n) == Key(<<"Wine", US, "Name">>, n)

Line(key, value) == key \o <<COLON, SP>> \o value

\* completions of the fan-out stage
PromptFormatDistinct ==
    Line(Wine_Name(1), <<"Merlot">>) \o <<NL>> \o Line(Wine_Name(2), <<"Riesling">>) \o <<NL>> \o
    Line(Wine_Name(3), <<"Port">>)
CodeFormatDistinct ==
    Line(Food_Pairing(1), <<"Merlot">>) \o <<NL>> \o Line(Food_Pairing(2), <<"Riesling">>) \o <<NL>> \o
    Line(Food_Pairing(3), <<"Port">>)
CodeFormatIdentical ==
    Line(Food_Pairing(1), <<"Merlot">>) \o <<NL>> \o Line(Food_Pairing(2), <<"Merlot">>) \o <<NL>> \o
    Line(Food_Pairing(3), <<"Merlot">>)
CodeFormatTwo ==
    Line(Food_Pairing(1), <<"Merlot">>) \o <<NL>> \o Line(Food_Pairing(2), <<"Port">>) \o <<NL>> \o
    Line(Food_Pairing(3), <<"Merlot">>)
\* identical names that differ in surrounding white space and in key spacing
CodeFormatUntrimmed ==
    Line(Food_Pairing(1), <<"Merlot">>) \o <<NL, SP>> \o
    Line(<<"Food", SP, "Pairing", SP, "2", SP>>, <<SP, "Merlot", SP>>) \o <<NL>> \o
    Line(Food_Pairing(3), <<"Merlot", SP, SP>>)
\* one name, told apart by type and course
CodeFormatByType ==
    Line(Food_Pairing(1), <<"Merlot">>) \o <<NL>> \o Line(Pairing_Type(1), <<"Red">>) \o <<NL>> \o
    Line(Food_Pairing(2), <<"Merlot">>) \o <<NL>> \o Line(Course_(2), <<"Main">>) \o <<NL>> \o
    Line(Food_Pairing(3), <<"Merlot">>)

PairingsResponses ==
    { PromptFormatDistinct, CodeFormatDistinct, CodeFormatIdentical, CodeFormatTwo,
      CodeFormatUntrimmed, CodeFormatByType, << >> }

DescriptionResponses ==
    { Line(<<"Pairing", US, "Description">>, <<"Crisp">>), << >> }
NotesResponses ==
    { Line(<<"Regional", US, "Pairing">>, <<"Loire">>), << >> }

\* process_food_info: wine_pairings_chain.invoke(food_data)
WinePairingsInvoke ==
    /\ pc = "pairings"
    /\ \/ /\ CanCompose(PairingsTemplateVars, inputs)
          /\ \E r \in PairingsResponses : wine_pairings' = r /\ Returned(r)
          /\ pc' = "gate"
       \/ /\ pc' = "except"
          /\ Raised(PairingsTemplateVars, inputs)
          /\ UNCHANGED wine_pairings
    /\ UNCHANGED <<parserVars, fileVars, index, inputs, retry_count, success, base_info_json,
                   wine_pairings_dict, i, pairing_description, result, results, outVars,
                   attempts, trace>>

\* process_food_info: the list pairings
pairings(dict) ==
    [n \in 1..NumPairings |->
        <<Get(dict, Food_Pairing(n), Empty), Get(dict, Pairing_Type(n), Empty),
          Get(dict, Course_(n), Empty)>>]

NotDistinct_Two(dict) == Cardinality({ pairings(dict)[n] : n \in 1..NumPairings }) < 2

\* process_food_info: len(set(pairings)) < 3
NotDistinct(dict) == Cardinality({ pairings(dict)[n] : n \in 1..NumPairings }) < 3

\* process_food_info: parse the completion, raise unless the pairings are distinct
DistinctnessCheck ==
    /\ pc = "gate"
    /\ wine_pairings_dict' = parse_keyval_response(wine_pairings)
    /\ IF NotDistinct(wine_pairings_dict')
       THEN pc' = "except" /\ i' = i
       ELSE pc' = "description" /\ i' = 1
    /\ UNCHANGED <<parserVars, fileVars, index, inputs, retry_count, success, base_info_json,
                   wine_pairings, pairing_description, result, results, outVars, attempts, trace,
                   histVars>>

\* process_food_info: the text wine_pairing of pairing n
wine_pairing(dict, n) ==
    Line(Wine_Pairing(n), Get(dict, Wine_Pairing(n), Empty)) \o <<NL>> \o
    Line(Pairing_Type(n), Get(dict, Pairing_Type(n), Empty)) \o <<NL>> \o
    Line(Course_(n), Get(dict, Course_(n), Empty))

\* process_single_pairing: {**food_data, "wine_pairing": wine_pairing}
pairing_data == DictSet(inputs, "wine_pairing", wine_pairing(wine_pairings_dict, i))

PairingDescriptionInvoke_Continue ==
    /\ pc = "description"
    /\ \/ /\ CanCompose(PairingTemplateVars, pairing_data)
          /\ \E r \in DescriptionResponses : pairing_description' = r /\ Returned(r)
          /\ pc' = "notes"
       \/ /\ pc' = "notes"
          /\ Raised(PairingTemplateVars, pairing_data)
          /\ UNCHANGED pairing_description
    /\ UNCHANGED <<parserVars, fileVars, index, inputs, retry_count, success, base_info_json,
                   wine_pairings, wine_pairings_dict, i, result, results, outVars, attempts, trace>>

\* process_single_pairing: pairing_description_chain.invoke; a failure makes
\* process_single_pairing return None and process_food_info raise
PairingDescriptionInvoke ==
    /\ pc = "description"
    /\ \/ /\ CanCompose(PairingTemplateVars, pairing_data)
          /\ \E r \in DescriptionResponses : pairing_description' = r /\ Returned(r)
          /\ pc' = "notes"
       \/ /\ pc' = "except"
          /\ Raised(PairingTemplateVars, pairing_data)
          /\ UNCHANGED pairing_description
    /\ UNCHANGED <<parserVars, fileVars, index, inputs, retry_count, success, base_info_json,
                   wine_pairings, wine_pairings_dict, i, result, results, outVars, attempts, trace>>

Numbered_Unsuffixed(dict, n) == dict

\* process_single_pairing: the keys of both mappings with the pairing number added
Numbered(dict, n) ==
    [k \in { Key(key, n) : key \in DOMAIN dict } |->
        dict[CHOOSE key \in DOMAIN dict : Key(key, n) = k]]

pairing_result(description, notes, n) ==
    DictUpdate(Numbered(parse_keyval_response(description), n),
               Numbered(parse_keyval_response(notes), n))

\* process_single_pairing: pairing_notes_chain.invoke and the merge; then in
\* process_food_info `if pairing_result:` (an empty mapping counts as a
\* failure), result.update, sleep, the next pairing or the return
PairingNotesInvoke ==
    /\ pc = "notes"
    /\ \/ /\ CanCompose(PairingTemplateVars, pairing_data)
          /\ \E r \in NotesResponses :
                LET merged == pairing_result(pairing_description, r, i)
                IN  IF merged = EmptyDict
                    THEN /\ pc' = "except"
                         /\ Returned(r)
                         /\ UNCHANGED <<wine_pairings_dict, i, result>>
                    ELSE /\ wine_pairings_dict' = DictUpdate(wine_pairings_dict, merged)
                         /\ calls' = calls + 1
                         /\ responses' = Append(responses, r)
                         /\ lastEvent' = "pacing"
                         /\ backoffs' = backoffs
                         /\ IF i < NumPairings
                            THEN /\ i' = i + 1
                                 /\ pc' = "description"
                                 /\ UNCHANGED result
                            ELSE /\ i' = i
                                 /\ result' = wine_pairings_dict'
                                 /\ pc' = "build"
       \/ /\ pc' = "except"
          /\ Raised(PairingTemplateVars, pairing_data)
          /\ UNCHANGED <<wine_pairings_dict, i, result>>
    /\ UNCHANGED <<parserVars, fileVars, index, inputs, retry_count, success, base_info_json,
                   wine_pairings, pairing_description, results, outVars, attempts, trace>>

Next ==
    \/ Load
    \/ NextRow
    \/ WhileTest
    \/ BaseInfoInvoke
    \/ CharacteristicsInvoke
    \/ BuildRow
    \/ HandleException
    \/ Persist
    \/ WinePairingsInvoke

Spec == Init /\ [][Next]_vars

\* the batch driver keeps running: the interpreter executes the next statement,
\* and a blocking model call returns a completion or raises
SpecLive == Init /\ [][Next]_vars /\ WF_vars(Next)


\* ------------------------------------------- process_food_info on its own
\* the chain called with a mapping that supplies every template variable, and
\* with the mapping extract_food_data builds
FoodDataChoices ==
    LET extracted == { extract_food_data(r) : r \in RowChoices({ProductName, Price, Sweetness}) }
    IN  extracted \cup { DictSet(d, "sweetness_dry", <<"Dry">>) : d \in extracted }

InitChain ==
    /\ pipeline = "wine"
    /\ readable = TRUE
    /\ \E r \in RowChoices({ProductName, Price, Sweetness}) :
          df = [columns |-> {ProductName, Price, Sweetness}, rows |-> <<r>>]
    /\ pc = "pairings"
    /\ index = 1
    /\ inputs \in FoodDataChoices
    /\ retry_count = 0
    /\ success = FALSE
    /\ base_info_json = << >>
    /\ wine_pairings = << >>
    /\ wine_pairings_dict = EmptyDict
    /\ i = 0
    /\ pairing_description = << >>
    /\ result = EmptyDict
    /\ results = << >>
    /\ final_df = NoFrame
    /\ saved = NoFile
    /\ ret = "none"
    /\ attempts = 1
    /\ trace = << >>
    /\ calls = 0
    /\ lastEvent = "none"
    /\ backoffs = 0
    /\ responses = << >>
    /\ response_text = << >>
    /\ parsed = EmptyDict
    /\ reparsed = EmptyDict

NextChain ==
    \/ WinePairingsInvoke
    \/ DistinctnessCheck
    \/ PairingDescriptionInvoke
    \/ PairingNotesInvoke

SpecChain == InitChain /\ [][NextChain]_vars


\* ------------------------------------------- the response parsers on their own
\* lines of a completion: blank, without a colon, a plain pair, and a pair with
\* spaces around and inside the key and a colon inside the value
LineChoices ==
    { << >>, <<"k">>, <<"k", COLON, SP, "v">>,
      <<SP, "k", SP, "k", COLON, "v", COLON, "v", SP>> }

SeqsUpTo(S, n) == UNION { [1..m -> S] : m \in 0..n }

\* sep.join(parts)
RECURSIVE Join(_, _)
Join(parts, sep) ==
    IF parts = << >> THEN << >>
    ELSE IF Len(parts) = 1 THEN parts[1]
    ELSE parts[1] \o sep \o Join(Tail(parts), sep)

\* texts handed to the parsers: up to MaxLines lines, between up to MaxMarks
\* code-fence or comment markers at each end
ResponseTexts ==
    { Join(pre, << >>) \o Join(body, <<NL>>) \o Join(post, << >>) :
        pre \in SeqsUpTo({Fence, CommentMark}, MaxMarks),
        body \in SeqsUpTo(LineChoices, MaxLines),
        post \in SeqsUpTo({Fence, CommentMark}, MaxMarks) }

\* the parser of the pipeline
Parse(t) ==
    IF pipeline = "food" THEN parse_key_value_pairs(t) ELSE parse_keyval_response(t)

\* the mapping written as one "key: value" line per entry, in the given order
Serialise(dict, order) ==
    Join([n \in 1..Len(order) |-> Line(order[n], dict[order[n]])], <<NL>>)

Orderings(S) ==
    { f \in [1..Cardinality(S) -> S] : \A a, b \in 1..Cardinality(S) : a # b => f[a] # f[b] }

InitParser ==
    /\ pipeline \in {"food", "wine"}
    /\ response_text \in ResponseTexts
    /\ pc = "parse"
    /\ parsed = EmptyDict
    /\ reparsed = EmptyDict
    /\ readable = TRUE
    /\ df = [columns |-> {}, rows |-> << >>]
    /\ index = 0
    /\ inputs = EmptyDict
    /\ retry_count = 0
    /\ success = FALSE
    /\ base_info_json = << >>
    /\ wine_pairings = << >>
    /\ wine_pairings_dict = EmptyDict
    /\ i = 0
    /\ pairing_description = << >>
    /\ result = EmptyDict
    /\ results = << >>
    /\ final_df = NoFrame
    /\ saved = NoFile
    /\ ret = "none"
    /\ attempts = 0
    /\ trace = << >>
    /\ calls = 0
    /\ lastEvent = "none"
    /\ backoffs = 0
    /\ responses = << >>

batchVars ==
    <<fileVars, index, inputs, retry_count, success, chainVars, result, results, outVars,
      attempts, trace, histVars>>

\* the parser applied to the text
ParseResponse ==
    /\ pc = "parse"
    /\ parsed' = Parse(response_text)
    /\ pc' = "serialise"
    /\ UNCHANGED <<response_text, reparsed, batchVars>>

\* the parser applied to its own mapping, written back as lines
Reparse ==
    /\ pc = "serialise"
    /\ \E order \in Orderings(DOMAIN parsed) : reparsed' = Parse(Serialise(parsed, order))
    /\ pc' = "reparsed"
    /\ UNCHANGED <<response_text, parsed, batchVars>>

NextParser ==
    \/ ParseResponse
    \/ Reparse

SpecParser == InitParser /\ [][NextParser]_vars


\* ================================================================== claims
\* the batch driver has loaded the input and left the loop over the records
Finished == pc = "finalize" \/ (pc = "done" /\ ret = "True")

\* columns every output row must hold
RequiredColumnsOf == IF pipeline = "food" THEN REQUIRED_COLUMNS ELSE FOOD_PAIRING_COLUMNS

\* C1: when the batch driver finishes a loaded input of M records the output
\* holds exactly M rows, and every record has contributed exactly one row,
\* enriched or fallback, whatever the model calls did.
C1_OneRowPerRecord ==
    Finished =>
        /\ Len(results) = Len(df.rows)
        /\ \A k \in 1..Len(df.rows) :
              Cardinality({ j \in 1..Len(trace) : trace[j].rec = k }) = 1
        /\ pc = "done" => Len(final_df.rows) = Len(df.rows) /\ Len(saved.rows) = Len(df.rows)

C1_Witness ==
    /\ pc = "done" /\ ret = "True" /\ Len(results) = 2
    /\ trace[1].kind = "fallback" /\ trace[2].kind = "enriched"

\* C2: the output rows are in input order: the row at position j of the
\* output is the row produced for record j, enriched or fallback.
C2_InputOrder ==
    /\ Len(results) = Len(trace)
    /\ \A j \in 1..Len(trace) : trace[j].rec = j
    /\ pc = "done" /\ ret = "True" =>
          \A j \in 1..Len(results) :
              \A c \in DOMAIN results[j] :
                  final_df.rows[j][c] = IF pipeline = "food" THEN results[j][c]
                                                             ELSE clean_text(results[j][c])

C2_Witness ==
    /\ Len(results) = 2
    /\ trace[1].kind = "enriched" /\ trace[2].kind = "fallback"

\* C3: a record whose chain fails on every attempt gets exactly 3 attempts,
\* then a fallback row holding every required column; a 4th attempt is never
\* started.
C3_RetryExhaustion ==
    /\ attempts <= 3
    /\ retry_count <= attempts
    /\ \A j \in 1..Len(trace) :
          trace[j].kind = "fallback" =>
              /\ trace[j].attempts = 3
              /\ j <= Len(results) /\ RequiredColumnsOf \subseteq DOMAIN results[j]
    /\ (retry_count = 3 /\ pc \in {"while", "iter"}) =>
          /\ attempts = 3
          /\ trace # << >>
          /\ trace[Len(trace)] = [rec |-> index, kind |-> "fallback", attempts |-> 3]

C3_Witness ==
    /\ retry_count = 3 /\ pc = "iter"
    /\ trace # << >> /\ trace[Len(trace)].kind = "fallback"

\* C4: after a batch run every required column is present in every output
\* row, enriched or fallback, holding the record's value or else the default.
C4_RequiredColumnsInEveryRow ==
    (pc = "done" /\ ret = "True") =>
        \A k \in 1..Len(final_df.rows) :
            \A col \in RequiredColumnsOf :
                /\ col \in final_df.columns
                /\ final_df.rows[k][col] # NaN
                /\ col \notin df.columns =>
                      final_df.rows[k][col] =
                          Get(IF pipeline = "food" THEN DEFAULT_VALUES
                                                   ELSE DEFAULT_FOOD_PAIRING_VALUES, col, Empty)


\* ------------------------------------------------ reconciliation (process_csv)
\* the try block of process_csv has just appended the enriched row of `row`
JustEnriched == pipeline = "food" /\ pc = "while" /\ success

Emitted == results[Len(results)]
BaseInfo == parse_key_value_pairs(result["base_info_json"])
Characteristics == parse_key_value_pairs(result["characteristics_json"])

\* spellings under which the prompts ask the model to write a column
Synonyms(col) == IF col = FoodType THEN {FoodType, <<"Food", SP, "type">>} ELSE {col}

\* the stage mappings hold a value for the column under the spelling k
Held(k) == k \in DOMAIN BaseInfo \cup DOMAIN Characteristics
ModelValue(k) == IF k \in DOMAIN BaseInfo THEN BaseInfo[k] ELSE Characteristics[k]

\* C5: existing value wins: a column of an enriched row for which the record
\* holds a value that is neither empty nor "Unknown" is emitted with that value.
C5_ExistingValueWins ==
    JustEnriched =>
        \A col \in DOMAIN Emitted :
            (col \in DOMAIN row /\ row[col] \notin {NaN, Empty, Unknown}) =>
                Emitted[col] = row[col]

\* C6: the sentinel falls through: when the record holds "Unknown" or an empty
\* value for a column and a stage mapping has a value for it, the model value
\* is emitted.
C6_SentinelFallsThrough ==
    JustEnriched =>
        \A col \in DOMAIN Emitted :
            (col \in DOMAIN row /\ row[col] \in {NaN, Empty, Unknown} /\ Held(col)) =>
                Emitted[col] = ModelValue(col)

\* C7: default last: a column for which the record has no value and no stage
\* mapping has a value is emitted with its default, or with the empty string
\* when it has no default.
C7_DefaultLast ==
    JustEnriched =>
        \A col \in DOMAIN Emitted :
            ( /\ col \in DOMAIN row => row[col] \in {NaN, Empty}
              /\ \A k \in Synonyms(col) : ~Held(k) ) =>
                Emitted[col] = Get(DEFAULT_VALUES, col, Empty)

\* C8: synonym lookup: when the record has no such column and a stage mapping
\* holds a value under a configured spelling of the column name, that value is
\* emitted.
C8_SynonymLookup ==
    JustEnriched =>
        \A col \in DOMAIN Emitted :
            \A k \in Synonyms(col) :
                (col \notin DOMAIN row /\ Held(k)) => Emitted[col] = ModelValue(k)

\* ------------------------------------------- distinctness gate (SpecChain)
\* the identifiers of the candidate items of a completion of the fan-out stage
CandidateIdentifiers(text) ==
    LET dict == parse_keyval_response(text)
    IN  { <<Get(dict, Food_Pairing(n), Empty), Get(dict, Pairing_Type(n), Empty),
            Get(dict, Course_(n), Empty)>> : n \in 1..3 }

PastGate == pc \notin {"pairings", "gate"}

\* C9: rejection: when the completion of the fan-out stage yields fewer than 3
\* pairwise distinct candidate identifiers (name, type and course, trimmed),
\* the chain raises for the attempt, starts no follow-up stage and returns
\* nothing.
C9_GateRejects ==
    (PastGate /\ Cardinality(CandidateIdentifiers(wine_pairings)) < 3) =>
        pc = "except" /\ i = 0 /\ result = EmptyDict

C9_Witness ==
    /\ pc = "except" /\ wine_pairings = CodeFormatUntrimmed
    /\ wine_pairings_dict # EmptyDict

\* C10: acceptance: a completion in the key format of the fan-out prompt with
\* 3 pairwise distinct items passes the check and the chain goes on to the
\* follow-up stages.
C10_GateAccepts ==
    (PastGate /\ wine_pairings = PromptFormatDistinct) => i >= 1

\* ------------------------------------------------------------ fallback rows
\* the row the Default Table and record rec alone determine
FromRecordAndDefaults(rec) ==
    IF pipeline = "food"
    THEN [col \in REQUIRED_COLUMNS |->
            IF col \in DOMAIN rec THEN rec[col] ELSE Get(DEFAULT_VALUES, col, Empty)]
    ELSE [col \in df.columns \cup FOOD_PAIRING_COLUMNS |->
            IF col \in df.columns THEN clean_text(rec[col])
                                  ELSE Get(DEFAULT_FOOD_PAIRING_VALUES, col, Empty)]

\* values held by the completions of the model
ParsedModelValues ==
    UNION { { parse_key_value_pairs(r)[k] : k \in DOMAIN parse_key_value_pairs(r) } :
            r \in BaseInfoResponses \cup CharacteristicsResponses }

\* C11: the fallback row of a record is a function of the record and the
\* Default Table alone: whatever the model returned in the failed attempts,
\* the row is the same, and no value parsed from a completion is in it.
C11_FallbackFromRecordOnly ==
    \A j \in 1..Len(trace) :
        trace[j].kind = "fallback" =>
            /\ results[j] = FromRecordAndDefaults(df.rows[trace[j].rec])
            /\ \A col \in DOMAIN results[j] : results[j][col] \notin ParsedModelValues

\* a fallback row appended after an attempt in which the first stage returned values
C11_Witness ==
    /\ pipeline = "food" /\ index = 1 /\ retry_count = 3 /\ pc = "while"
    /\ trace # << >> /\ trace[Len(trace)].kind = "fallback"
    /\ DOMAIN parse_key_value_pairs(base_info_json) # {}

\* ------------------------------------------------------ pacing and backoff
\* the step makes a call to the model
ModelCall == calls' = calls + 1

\* C12: every model call is immediately preceded by a pacing delay (or by the
\* backoff delay): no call follows another call with no sleep in between, and
\* the first call of a batch follows a sleep too.
C12_EveryCallPaced == [][ModelCall => lastEvent \in {"pacing", "backoff"}]_vars

\* ------------------------------------------------------- completeness check
\* C13: an attempt in which a stage returned a completion whose parsed mapping
\* lacks the stage's output keys (an empty completion, for one) is a failed
\* attempt: it never ends in an enriched row.
C13_IncompleteIsFailure ==
    JustEnriched =>
        \A k \in 1..Len(responses) : parse_key_value_pairs(responses[k]) # EmptyDict

\* ------------------------------------------------------------ load failure
\* the input file cannot be read or has no "Product Name" column
LoadFails == ~readable \/ ProductName \notin df.columns

\* C14: when the load fails the batch driver aborts before the first record:
\* no record is processed, no model call is made, no output file is written,
\* and the driver returns failure.
C14_LoadFailureAborts ==
    LoadFails =>
        /\ pc \in {"load", "done"}
        /\ index = 0 /\ calls = 0
        /\ ~saved.written
        /\ pc = "done" => ret = "False"

\* --------------------------------------------------- per-record failures
\* C15: per-record failures never abort the batch: an exception of a chain run
\* is handled inside the loop, which goes on with the same record or the next,
\* and a loaded batch ends with every record processed, the output written
\* and success returned, however many records failed every attempt.
C15_FailuresNeverAbort ==
    /\ [](pc = "done" /\ LoadOk =>
            /\ ret = "True" /\ saved.written
            /\ index = Len(df.rows)
            /\ Len(saved.rows) = Len(df.rows)
            /\ \A k \in 1..Len(df.rows) : \E j \in 1..Len(trace) : trace[j].rec = k)
    /\ [][pc = "except" => pc' = "while" /\ index' = index /\ ret' = ret]_vars

\* a batch of two records that both failed every attempt
C15_Witness ==
    /\ pc = "done" /\ ret = "True" /\ Len(df.rows) = 2
    /\ \A j \in 1..2 : trace[j].kind = "fallback" /\ trace[j].attempts = 3

\* ----------------------------------------------------- configuration error
\* the first template of the chain names a variable the extraction of the
\* current record does not supply
ConfigurationError ==
    /\ index >= 1
    /\ ~CanCompose(IF pipeline = "food" THEN FoodTemplateVars ELSE PairingsTemplateVars, inputs)

\* C16: a configuration error is fatal and is not retried: it uses up no
\* retry attempt and does not end in a fallback row.
C16_ConfigurationErrorFatal ==
    ConfigurationError =>
        /\ retry_count = 0 /\ attempts <= 1 /\ backoffs = 0
        /\ \A j \in 1..Len(trace) : trace[j].kind # "fallback"

\* ------------------------------------------------- the parsers (SpecParser)
\* C17: parser idempotence: the mapping parsed from a text, written as one
\* "key: value" line per entry and parsed again, is the same mapping, also
\* when its keys or values begin or end with a code-fence or comment marker.
C17_ParserIdempotent == pc = "reparsed" => reparsed = parsed

\* number of lines of the text that hold a colon
ColonLines(t) ==
    Cardinality({ n \in 1..Len(SplitOn(t, NL)) : Contains(SplitOn(t, NL)[n], COLON) })

\* C18: the parser is total: every text gives a mapping; a text that is empty
\* or all white space gives the empty mapping; a line that is blank or has no
\* colon adds no entry.
C18_ParserTotal ==
    pc # "parse" =>
        /\ \A k \in DOMAIN parsed :
              parsed[k] \in Seq({SP, NL, COLON, US, BT, STAR, SLASH, "k", "v"})
        /\ (\A n \in 1..Len(response_text) : IsSpace(response_text[n])) => parsed = EmptyDict
        /\ Cardinality(DOMAIN parsed) <= ColonLines(response_text)

\* a text of a line without a colon, a blank line and a pair: one entry
C18_Witness ==
    /\ pc = "serialise"
    /\ response_text = <<"k", NL, NL, "k", COLON, SP, "v">>
    /\ parsed = (<<"k">> :> <<"v">>)

\* ----------------------------------------------------------- fresh retries
\* C19: every chain run starts at the first stage with nothing accumulated,
\* and later stages and the enriched row use only the completions returned in
\* the same run: nothing of a failed attempt is carried into a later one.
C19_RetryStartsFresh ==
    /\ pc \in {"base_info", "pairings"} => responses = << >>
    /\ pc = "characteristics" => responses = <<base_info_json>>
    /\ pc = "build" =>
          result = ("base_info_json" :> responses[1]) @@ ("characteristics_json" :> responses[2])
    /\ JustEnriched =>
          /\ Len(responses) = 2
          /\ Emitted = food_data(row, parse_key_value_pairs(responses[1]),
                                 parse_key_value_pairs(responses[2]))

\* an enriched row built in the second attempt, from an empty first completion,
\* after a first attempt failed
C19_Witness ==
    /\ JustEnriched /\ attempts = 2 /\ retry_count = 1
    /\ responses[1] = << >> /\ responses[2] # << >>

\* --------------------------------------------------------- backoff ordering
\* a chain run of the current record is under way or has just failed
InAttempt == pc \in {"base_info", "characteristics", "pairings", "build", "except"}

\* C20: backoff ordering: after a failed attempt n < 3 the driver sleeps the
\* backoff exactly once before attempt n + 1; after the failed attempt 3 it
\* sleeps no backoff and appends the fallback row; it never sleeps a backoff
\* after a successful attempt.
C20_BackoffOrdering ==
    /\ [](/\ backoffs = IF retry_count < 3 THEN retry_count ELSE 2
          /\ InAttempt => attempts = backoffs + 1
          /\ retry_count = 3 =>
                /\ trace # << >>
                /\ trace[Len(trace)] = [rec |-> index, kind |-> "fallback", attempts |-> 3]
          /\ success /\ pc = "while" => lastEvent = "pacing")
    /\ [][backoffs' = backoffs + 1 =>
            ~success /\ ~success' /\ pc = "except" /\ retry_count' < 3 /\ lastEvent' = "backoff"]_vars

\* a record enriched at its third attempt, after two backoff sleeps
C20_Witness ==
    /\ success /\ pc = "while" /\ retry_count = 2 /\ attempts = 3
    /\ backoffs = 2 /\ lastEvent = "pacing"

\* ------------------------------------------- fan-out completion (SpecChain)
\* the chain has returned its mapping to the caller
ChainReturned == pc = "build"

\* completions of the description and the notes stage for item n of a chain
\* run that returned
DescriptionOf(n) == parse_keyval_response(responses[2 * n])
NotesOf(n) == parse_keyval_response(responses[2 * n + 1])

\* the mapping holds the value under the key
Holds(dict, k, value) == k \in DOMAIN dict /\ dict[k] = value

\* C21: the fan-out chain returns only when, for each of the 3 items, the
\* description call and then the notes call completed; when a follow-up call
\* fails the chain fails and hands nothing to the row builder; the mapping it
\* returns holds every follow-up field under the key <field>_<index>.
C21_FanOutCompletion ==
    /\ ChainReturned =>
          /\ calls = 7 /\ Len(responses) = 7 /\ i = 3
          /\ \A n \in 1..3 :
                /\ \A k \in DOMAIN NotesOf(n) : Holds(result, k \o <<US, Num[n]>>, NotesOf(n)[k])
                /\ \A k \in DOMAIN DescriptionOf(n) \ DOMAIN NotesOf(n) :
                      Holds(result, k \o <<US, Num[n]>>, DescriptionOf(n)[k])
    /\ ~ChainReturned => result = EmptyDict /\ results = << >>

\* a chain run that returned with the description and the notes of all 3 items
C21_Witness ==
    /\ ChainReturned
    /\ \A n \in 1..3 :
          /\ Holds(result, <<"Pairing", US, "Description", US, Num[n]>>, <<"Crisp">>)
          /\ Holds(result, <<"Regional", US, "Pairing", US, Num[n]>>, <<"Loire">>)

\* ------------------------------------------------- no retry below the loop
\* positions at which the chain calls the model
Stages == {"base_info", "characteristics", "pairings", "description", "notes"}

\* completions a chain run holds when it stands at a position: every stage
\* before it was called once (once per item for the per-item stages)
CompletedCalls ==
    IF pc = "base_info" \/ pc = "pairings" THEN 0
    ELSE IF pc = "characteristics" \/ pc = "gate" THEN 1
    ELSE IF pc = "description" THEN 1 + 2 * (i - 1)
    ELSE IF pc = "notes" THEN 2 * i
    ELSE IF pipeline = "food" THEN 2 ELSE 7

\* C22: the chain does no retry of its own: in one attempt every stage is
\* called at most once (once per item for the per-item stages), and the first
\* failure of a stage ends the attempt and is counted by the retry loop.
C22_NoRetryBelowController ==
    /\ [](pc \in Stages \cup {"gate", "build"} => Len(responses) = CompletedCalls)
    /\ [][(pc \in Stages /\ responses' = responses) =>
            (pc' = "except" /\ calls' \in {calls, calls + 1})]_vars
    /\ [][pc = "except" => retry_count' = retry_count + 1 /\ calls' = calls]_vars

\* the second stage failed in the first attempt, after one call to each stage
C22_Witness ==
    /\ pipeline = "food" /\ pc = "except" /\ attempts = 1
    /\ calls = 2 /\ Len(responses) = 1

\* ----------------------------------------------------- sequential processing
\* C23: processing is strictly sequential: a model call for a record is made
\* only when the rows of all records before it are in the output and its own
\* row is not, and a stage is called only after the stage before it returned
\* in the same attempt.
C23_StrictlySequential ==
    /\ [](index >= 1 => Len(results) \in {index - 1, index})
    /\ [][ModelCall =>
            /\ Len(results) = index - 1
            /\ \A j \in 1..Len(trace) : trace[j].rec < index
            /\ pc = "characteristics" => responses = <<base_info_json>>]_vars

\* the second stage is called for record 2, whose first stage has returned,
\* with the row of record 1 in the output
C23_Witness ==
    /\ index = 2 /\ pc = "build" /\ calls = 2 /\ attempts = 1
    /\ Len(results) = 1 /\ trace[1].rec = 1

\* ------------------------------------------------------- read-only inputs
\* what the extraction reads from the current record
Extracted ==
    IF pipeline = "food" THEN extract_input_data(row) ELSE extract_food_data(row)

\* C24: processing leaves the input unchanged: no step of an attempt,
\* successful or failed, changes a column value of a record, and the mapping
\* extracted from the record stays what the record gives (the default table
\* and the required columns are constants, which no step can change).
C24_InputUnchanged ==
    /\ [][df' = df]_vars
    /\ [](index >= 1 => inputs = Extracted)

\* a record enriched after a failed attempt, whose output row holds a
\* sweetness other than the record's own
C24_Witness ==
    /\ JustEnriched /\ retry_count >= 1
    /\ Sweetness \in DOMAIN row /\ Emitted[Sweetness] # row[Sweetness]

\* ---------------------------------------------------- termination (SpecLive)
\* C25: termination: when every model call returns or fails, the batch driver
\* comes to its end, and for a loaded input that end is the persist step with
\* a row for every record: no record is attempted forever.
C25_Termination ==
    <>(/\ pc = "done"
       /\ LoadOk => ret = "True" /\ saved.written /\ Len(saved.rows) = Len(df.rows))

\* the end of a batch whose first record failed every attempt and whose second
\* record was enriched at its second attempt
C25_Witness ==
    /\ pc = "done" /\ ret = "True" /\ Len(trace) = 2
    /\ trace[1] = [rec |-> 1, kind |-> "fallback", attempts |-> 3]
    /\ trace[2] = [rec |-> 2, kind |-> "enriched", attempts |-> 2]

\* ------------------------------------------------- model calls of one record
\* model calls of one chain run that returns
CallsOfChain == IF pipeline = "food" THEN 2 ELSE 1 + 2 * NumPairings

\* C26: the model calls made for one record are bounded: at most max_retries
\* attempts, each of at most the calls of one full chain (2, and 1 + 2 * 3 = 7),
\* so at most 6 and 21; a chain that returns on the first attempt has made
\* exactly 2 and 7 calls.
C26_CallsBounded ==
    /\ attempts <= 3
    /\ calls <= CallsOfChain * attempts
    /\ calls <= IF pipeline = "food" THEN 6 ELSE 21
    /\ (ChainReturned /\ attempts = 1) => calls = CallsOfChain

C26_Witness == pipeline = "food" /\ pc = "except" /\ attempts = 3 /\ calls = 6

\* ------------------------------------------- failures inside the fan-out chain
\* C27: within one run of the fan-out chain a failure cuts the remaining calls
\* short: a follow-up call is made only when the distinctness check passed; a
\* call that fails is the last call of the run, so no call is made for a later
\* item; and the notes call of an item is made only after its description call
\* returned.
C27_FailuresCutShort ==
    /\ calls >= 2 => ~NotDistinct(parse_keyval_response(wine_pairings))
    /\ pc # "except" => calls = Len(responses)
    /\ pc = "except" => calls <= Len(responses) + 1 /\ calls <= 1 + 2 * i
    /\ pc = "notes" => Len(responses) = 2 * i

C27_Witness == pc = "except" /\ i = 2 /\ Len(responses) = 3 /\ calls = 4

====
